---- MODULE Spec2Model ----
(***************************************************************************)
(* Model of the license server's user API (src/app.py): the /api/authorize *)
(* handler running as concurrent requests over the shared relational       *)
(* store (tables active_sessions, licenses, file_registry).                *)
(*                                                                         *)
(* The request body is immutable, so each of its fields is drawn where     *)
(* the handler first reads the local that holds it: requested_file at     *)
(* lines 116 and 157, provided_key at line 140, or with the response of    *)
(* the session path, which never reads it.  A request rejected at line 93  *)
(* or 98 has read the token only.                                          *)
(*                                                                         *)
(* Time is counted in whole hours.  The store is modelled with the         *)
(* semantics of the production backend (PostgreSQL, READ COMMITTED, which  *)
(* DATABASE_URL selects; the sqlite engine is the "local testing only"     *)
(* fallback of line 28): a SELECT reads committed rows, the writes of a    *)
(* transaction become visible at its commit, an UPDATE waits for the row   *)
(* lock of an uncommitted UPDATE of the same row, an INSERT waits for an   *)
(* uncommitted INSERT of the same primary key and raises on a committed    *)
(* duplicate or a NULL key, and leaving `with engine.connect()` by an      *)
(* exception rolls the transaction back.                                   *)
(***************************************************************************)
EXTENDS Integers, FiniteSets, Sequences, TLC

\* ---- bounds of the model ----
NumRequests == 2        \* request slots handled concurrently
MaxClock == 1           \* the clock stops advancing here
MaxDuration == 2        \* largest duration_hours of a license row

Requests == 1..NumRequests

\* ---- value domains ----
None == "None"                         \* Python's None / SQL NULL
Emails == {"a@x", "b@x"}
Keys == {"K1", "K2"}                   \* key codes of the license rows
BadKey == "K0"                         \* a key code no license row carries
FileNames == {"f1", "f2"}
RegistryRows == {[name |-> "f1", gdrive_id |-> "g1"]}   \* the rows of file_registry
DEFAULT_FALLBACK_ID == "DEFAULT_FALLBACK_ID"
SESSION_SECRET == "change-this-secret-now"

VARIABLES
  clock,        \* datetime.now()
  sessions,     \* committed rows of active_sessions: [user_email, expires_at]
  licenses,     \* committed rows of licenses: [key_code, status, duration_hours]
  registry,     \* committed rows of file_registry: [name, gdrive_id]
  req,          \* per request: its position in authorize(), its live locals, its response
  activations   \* history: number of committed activations per key code

vars == <<clock, sessions, licenses, registry, req, activations>>

stores == <<sessions, licenses, registry>>

\* ---- responses (jsonify(...), status) ----
NoResp == [status |-> 0, authorized |-> FALSE, needs_key |-> FALSE, error |-> None,
           message |-> None, hours_remaining |-> 0, gdrive_id |-> None,
           session_token |-> None]

\* (variant: every rejection is sent with the one status 403)
Reject_Forbidden(st, err) == [NoResp EXCEPT !.status = 403, !.error = err]

\* jsonify({"authorized": False, "error": err}), st
Reject(st, err) == [NoResp EXCEPT !.status = st, !.error = err]

\* lines 130-134
SessionSuccess(hours, gid, token) ==
  [NoResp EXCEPT !.status = 200, !.authorized = TRUE, !.hours_remaining = hours,
                 !.gdrive_id = gid, !.session_token = token]

\* lines 164-169
ActivationSuccess(hours, gid, token) ==
  [NoResp EXCEPT !.status = 200, !.authorized = TRUE, !.message = "Activated",
                 !.hours_remaining = hours, !.gdrive_id = gid, !.session_token = token]

\* An exception that leaves authorize() (Flask answers 500).
Fault(err) == [NoResp EXCEPT !.status = 500, !.error = err]

\* Python truthiness of an optional string: None and "" are falsy.
Truthy(s) == s # None /\ s # ""

\* ---- generate_session_token ----
\* expiry.isoformat(): the text of a timestamp.
IsoFormat(t) == ToString(t)

\* f"{email}:{expiry_str}", line 53
Message(email, expiry_str) == <<email, ":", expiry_str>>

\* hmac.new(secret, message, sha256).hexdigest()[:16], lines 54-56.  The keyed hash is
\* taken as collision-free on the model's keys and messages.
Signature(secret, message) == <<"hmac-sha256", secret, message>>

\* lines 52-57: the token for an expiry, as the parts of f"{email}:{expiry_str}:{signature}"
SessionToken(email, expiry, secret) ==
  LET expiry_str == IsoFormat(expiry)
  IN  <<email, expiry_str, Signature(secret, Message(email, expiry_str))>>

\* (variant: the signed message also carries the time of the call)
generate_session_token_Stamped(email, hours) ==
  LET expiry_str == IsoFormat(clock + hours)
  IN  <<email, expiry_str,
        Signature(SESSION_SECRET, Message(email, expiry_str) \o <<IsoFormat(clock)>>)>>

\* lines 50-57; line 51 reads the clock: expiry = datetime.now() + timedelta(hours=hours)
generate_session_token(email, hours) == SessionToken(email, clock + hours, SESSION_SECRET)

\* ---- verify_google_token ----
\* The <<email, error>> pairs the verifier can return for a non-empty token.
VerifyGoogleToken(token_type) ==
  IF token_type = "id_token"
    THEN {<<None, "Email not verified">>}                       \* line 65
         \cup {<<e, None>> : e \in Emails \cup {None}}          \* line 66, idinfo.get('email')
         \cup {<<None, m>> : m \in {"Exception", ""}}           \* line 67, str(e)
    ELSE {<<None, "Invalid token">>}                            \* line 74
         \cup {<<e, None>> : e \in Emails \cup {None}}          \* line 75, .get('email')
         \cup {<<None, m>> : m \in {"Exception", ""}}           \* line 76, str(e)

\* ---- the store's statements ----
\* SELECT expires_at FROM active_sessions WHERE user_email = :e  (.fetchone())
SelectSession(s, e) ==
  LET hit == {r \in s : r.user_email = e}
  IN  IF e = None \/ hit = {} THEN <<>> ELSE <<(CHOOSE r \in hit : TRUE).expires_at>>

\* (variant: the DELETE matches no row)
DeleteSession_Keep(s, e) == s

\* DELETE FROM active_sessions WHERE user_email = :e
DeleteSession(s, e) == {r \in s : e = None \/ r.user_email # e}

\* (variant: a table created without the primary key rejects only a NULL)
PrimaryKeyViolation_NullOnly(s, e) == e = None

\* user_email TEXT PRIMARY KEY: the INSERT of a NULL or of a present key raises.
PrimaryKeyViolation(s, e) == e = None \/ \E r \in s : r.user_email = e

\* INSERT INTO active_sessions (user_email, expires_at) VALUES (:e, :t)
InsertSession(s, e, t) == s \cup {[user_email |-> e, expires_at |-> t]}

\* (variant: the WHERE clause is missing, the first row is fetched)
SelectLicense_Any(l, k) ==
  IF l = {} THEN <<>>
  ELSE LET r == CHOOSE x \in l : TRUE IN <<r.status, r.duration_hours>>

\* SELECT status, duration_hours FROM licenses WHERE key_code = :k  (.fetchone())
SelectLicense(l, k) ==
  LET hit == {r \in l : r.key_code = k}
  IN  IF hit = {} THEN <<>>
      ELSE LET r == CHOOSE x \in hit : TRUE IN <<r.status, r.duration_hours>>

\* (variant: the UPDATE flips the status instead of setting it)
MarkUsed_Toggle(l, k) ==
  {IF r.key_code = k
     THEN [r EXCEPT !.status = IF r.status = "used" THEN "unused" ELSE "used"]
     ELSE r : r \in l}

\* UPDATE licenses SET status = 'used' WHERE key_code = :k
MarkUsed(l, k) == {IF r.key_code = k THEN [r EXCEPT !.status = "used"] ELSE r : r \in l}

\* SELECT gdrive_id FROM file_registry WHERE name = :n  (.fetchone())
SelectFile(reg, n) ==
  LET hit == {r \in reg : r.name = n}
  IN  IF hit = {} THEN <<>> ELSE <<(CHOOSE r \in hit : TRUE).gdrive_id>>

\* SELECT gdrive_id FROM file_registry LIMIT 1  (.fetchone())
FirstFile(reg) == IF reg = {} THEN <<>> ELSE <<(CHOOSE r \in reg : TRUE).gdrive_id>>

\* The key codes of the rows marked used.
UsedKeys(l) == {r.key_code : r \in {x \in l : x.status = "used"}}

\* The license table the admin app has left: fresh keys, one row per key code, of
\* the shortest and of the longest duration.
InitialLicenses ==
  {[key_code |-> "K1", status |-> "unused", duration_hours |-> 1],
   [key_code |-> "K2", status |-> "unused", duration_hours |-> MaxDuration]}

\* ---- a request's frame ----
Unread == "unread"          \* a field of the body the handler has not read yet
NoReading == 0 - 1          \* the request has not read the clock yet

\* arrived_used: the key codes already used when the request arrived (history).
\* key_was_used: the key the request carries was among them (history).
\* file_row: the row of file_registry the request found (fetchone(): <<>> or <<gdrive_id>>).
\* now: the latest value of datetime.now() the request has read (NoReading: none yet).
Idle == [pc |-> "idle", google_token |-> Unread, email |-> None, error |-> None,
         provided_key |-> Unread, now |-> NoReading,
         requested_file |-> Unread, session |-> <<>>, remaining |-> 0, row |-> <<>>,
         new_expiry |-> 0, file_row |-> <<>>, arrived_used |-> {},
         key_was_used |-> FALSE, resp |-> NoResp]

\* ---- initial state: no request in flight, tables as the admin app left them ----
Init ==
  /\ clock = 0
  /\ sessions = {}
  /\ licenses = InitialLicenses
  /\ registry = RegistryRows
  /\ req = [r \in Requests |-> Idle]
  /\ activations = [k \in Keys |-> 0]

\* The request in frame f has returned x: the frame keeps the identity, the body's
\* fields the request has read and what it got; its other locals are gone.
Done(f, x) ==
  [Idle EXCEPT !.pc = "done", !.google_token = f.google_token, !.email = f.email,
               !.error = f.error,
               !.provided_key = f.provided_key,
               !.requested_file = f.requested_file, !.file_row = f.file_row,
               !.key_was_used = f.key_was_used \/ f.provided_key \in f.arrived_used,
               !.resp = x]

\* Request r, in frame f, returns x.
Return(r, f, x) == req' = [req EXCEPT ![r] = Done(f, x)]

\* The values data.get('key') can have when the handler has not read it yet.
KeyOf(f) ==
  IF f.provided_key = Unread THEN Keys \cup {BadKey, None} ELSE {f.provided_key}

FileInputs == FileNames \cup {None}

\* ---- authorize(), lines 86-98: parse the body, verify the identity ----
\* The frames a request arriving in store state l can be in after line 98.
Arrivals(l) ==
  LET verified(f0, v) ==
        LET f1 == [f0 EXCEPT !.email = v[1], !.error = v[2]]
        IN  IF Truthy(v[2])
              THEN Done(f1, Reject(403, "Google auth failed"))
              ELSE [f1 EXCEPT !.pc = "select_session"]
      arrival(google_token, token_type) ==
        LET f0 == [Idle EXCEPT !.google_token = google_token,
                               !.arrived_used = UsedKeys(l)]
        IN  IF ~Truthy(google_token)
              THEN {Done(f0, Reject(400, "Google token required"))}
              ELSE {verified(f0, v) : v \in VerifyGoogleToken(token_type)}
  IN  UNION {arrival(t[1], t[2]) : t \in {None, "", "tok"} \X {"id_token", "access_token"}}

\* A worker that is idle, or has sent its last response, takes the next request.
Begin(r) ==
  /\ req[r].pc \in {"idle", "done"}
  /\ \E f \in Arrivals(licenses) : req' = [req EXCEPT ![r] = f]
  /\ UNCHANGED <<clock, stores, activations>>

\* lines 104-108: read the identity's session row
ReadSession(r) ==
  /\ req[r].pc = "select_session"
  /\ LET s == SelectSession(sessions, req[r].email) IN
       req' = [req EXCEPT ![r].session = s,
                          ![r].pc = IF s # <<>> THEN "check_expiry" ELSE "check_key"]
  /\ UNCHANGED <<clock, stores, activations>>

\* (variant: <= in place of <)
IsActive_Inclusive(now, expires_at) == now <= expires_at

\* The test of line 112 on a clock reading.
IsActive(now, expires_at) == now < expires_at

\* line 112: if datetime.now() < expires_at
CheckExpiry(r) ==
  /\ req[r].pc = "check_expiry"
  /\ req' = [req EXCEPT ![r].now = clock,
                        ![r].pc = IF IsActive(clock, req[r].session[1])
                                    THEN "remaining" ELSE "delete_expired"]
  /\ UNCHANGED <<clock, stores, activations>>

\* (variant: the operands swapped, the time elapsed instead of the time left)
Remaining_Elapsed(expires_at, now) == now - expires_at

\* line 113: (expires_at - datetime.now()) in hours
Remaining(expires_at, now) == expires_at - now

ComputeRemaining(r) ==
  /\ req[r].pc = "remaining"
  /\ req' = [req EXCEPT ![r].remaining = Remaining(req[r].session[1], clock),
                        ![r].now = clock,
                        ![r].pc = "respond_active"]
  /\ UNCHANGED <<clock, stores, activations>>

\* lines 116-134: resolve the file and answer on the active-session path.
\* At the model's whole-hour resolution round(remaining, 2) leaves the value as it is.
ActiveAnswer(r) ==
  \E k \in KeyOf(req[r]), n \in FileInputs :
    LET f == [req[r] EXCEPT !.provided_key = k, !.requested_file = n] IN
    IF Truthy(n)
      THEN LET file_row == SelectFile(registry, n) IN
           IF file_row # <<>>
             THEN Return(r, [f EXCEPT !.file_row = file_row],
                         SessionSuccess(f.remaining, file_row[1],
                                        generate_session_token(f.email, f.remaining)))
             ELSE Return(r, f, Reject(404, "File not found on server."))
      ELSE LET first == FirstFile(registry) IN
           Return(r, [f EXCEPT !.file_row = first],
                  SessionSuccess(f.remaining,
                                 IF first # <<>> THEN first[1] ELSE DEFAULT_FALLBACK_ID,
                                 generate_session_token(f.email, f.remaining)))

\* (variant: a failed file lookup also drops the caller's session)
RespondActive_Cleanup(r) ==
  /\ req[r].pc = "respond_active"
  /\ ActiveAnswer(r)
  /\ sessions' = IF req'[r].resp.status = 404
                   THEN DeleteSession(sessions, req[r].email) ELSE sessions
  /\ UNCHANGED <<clock, licenses, registry, activations>>

RespondActive(r) ==
  /\ req[r].pc = "respond_active"
  /\ ActiveAnswer(r)
  /\ UNCHANGED <<clock, stores, activations>>

\* lines 136-137: delete the expired session row and commit
DeleteExpired(r) ==
  /\ req[r].pc = "delete_expired"
  /\ sessions' = DeleteSession(sessions, req[r].email)
  /\ req' = [req EXCEPT ![r].pc = "check_key"]
  /\ UNCHANGED <<clock, licenses, registry, activations>>

\* (variant: the status of the row is not looked at)
IsUsed_Never(lic) == FALSE

\* The test of line 148 on a license row.
IsUsed(lic) == lic[1] = "used"

\* lines 140-148: require a key, read its license row
CheckKey(r) ==
  /\ req[r].pc = "check_key"
  /\ \E k \in KeyOf(req[r]) :
       LET f == [req[r] EXCEPT !.provided_key = k]
           lic == SelectLicense(licenses, k)
       IN IF ~Truthy(k)
            THEN Return(r, f, [Reject(401, "Active license required.")
                                 EXCEPT !.needs_key = TRUE])
          ELSE IF lic = <<>> THEN Return(r, f, Reject(403, "Invalid license key"))
          ELSE IF IsUsed(lic) THEN Return(r, f, Reject(403, "Key already used"))
          ELSE req' = [req EXCEPT ![r] = [f EXCEPT !.row = lic,
                                                   !.key_was_used = k \in f.arrived_used,
                                                   !.arrived_used = {},
                                                   !.session = <<>>,
                                                   !.pc = "compute_expiry"]]
  /\ UNCHANGED <<clock, stores, activations>>

\* line 151: new_expiry = datetime.now() + timedelta(hours=row[1])
ComputeExpiry(r) ==
  /\ req[r].pc = "compute_expiry"
  /\ req' = [req EXCEPT ![r].new_expiry = clock + req[r].row[2],
                        ![r].now = clock,
                        ![r].pc = "update_license"]
  /\ UNCHANGED <<clock, stores, activations>>

\* Request q holds the row lock of license k: its UPDATE is not yet committed.
HoldsLicense(q, k) == req[q].pc \in {"insert_session", "commit"} /\ req[q].provided_key = k

\* Request q holds an uncommitted INSERT of a session row for e.
HoldsSession(q, e) == req[q].pc = "commit" /\ req[q].email = e

\* (variant: an autocommitting connection publishes the UPDATE at once)
UpdateLicense_Autocommit(r) ==
  /\ req[r].pc = "update_license"
  /\ \A q \in Requests \ {r} : ~HoldsLicense(q, req[r].provided_key)
  /\ licenses' = MarkUsed(licenses, req[r].provided_key)
  /\ req' = [req EXCEPT ![r].pc = "insert_session"]
  /\ UNCHANGED <<clock, sessions, registry, activations>>

\* line 152: the UPDATE, uncommitted; it waits while another transaction holds the row
UpdateLicense(r) ==
  /\ req[r].pc = "update_license"
  /\ \A q \in Requests \ {r} : ~HoldsLicense(q, req[r].provided_key)
  /\ req' = [req EXCEPT ![r].pc = "insert_session"]
  /\ UNCHANGED <<clock, stores, activations>>

\* line 153: the INSERT, uncommitted; a duplicate or NULL key raises IntegrityError,
\* which leaves the `with` block and rolls the UPDATE back
InsertRow(r) ==
  /\ req[r].pc = "insert_session"
  /\ \A q \in Requests \ {r} : ~HoldsSession(q, req[r].email)
  /\ IF PrimaryKeyViolation(sessions, req[r].email)
       THEN Return(r, req[r], Fault("IntegrityError"))
       ELSE req' = [req EXCEPT ![r].pc = "commit"]
  /\ UNCHANGED <<clock, stores, activations>>

\* line 154: conn.commit() publishes the UPDATE and the INSERT together
Commit(r) ==
  /\ req[r].pc = "commit"
  /\ licenses' = MarkUsed(licenses, req[r].provided_key)
  /\ sessions' = InsertSession(sessions, req[r].email, req[r].new_expiry)
  /\ activations' = [activations EXCEPT ![req[r].provided_key] = @ + 1]
  /\ req' = [req EXCEPT ![r].pc = "respond_new", ![r].new_expiry = 0]
  /\ UNCHANGED <<clock, registry>>

\* lines 157-169: resolve the file and answer on the activation path
RespondNew(r) ==
  /\ req[r].pc = "respond_new"
  /\ \E n \in FileInputs :
       LET f == [req[r] EXCEPT !.requested_file = n]
           file_row == IF Truthy(n) THEN SelectFile(registry, n) ELSE FirstFile(registry)
       IN  Return(r, [f EXCEPT !.file_row = file_row],
                  ActivationSuccess(f.row[2],
                                    IF file_row # <<>> THEN file_row[1]
                                    ELSE DEFAULT_FALLBACK_ID,
                                    generate_session_token(f.email, f.row[2])))
  /\ UNCHANGED <<clock, stores, activations>>

\* Time passes.
Tick ==
  /\ clock < MaxClock
  /\ clock' = clock + 1
  /\ UNCHANGED <<stores, req, activations>>

Step(r) ==
  \/ Begin(r) \/ ReadSession(r) \/ CheckExpiry(r) \/ ComputeRemaining(r)
  \/ RespondActive(r) \/ DeleteExpired(r) \/ CheckKey(r) \/ ComputeExpiry(r)
  \/ UpdateLicense(r) \/ InsertRow(r) \/ Commit(r) \/ RespondNew(r)

Next == Tick \/ \E r \in Requests : Step(r)

Spec == Init /\ [][Next]_vars

(***************************************************************************)
(* Properties                                                              *)
(***************************************************************************)
\* Request r takes a step.
Acts(r) == req'[r] # req[r]

\* A finished request that was answered from a live session (lines 112-134).
OnSessionPath(f) ==
  f.pc = "done" /\ (f.resp.status = 404 \/ (f.resp.status = 200 /\ f.resp.message = None))

\* A finished request that activated a key (lines 150-169).
Activated(f) == f.pc = "done" /\ f.resp.status = 200 /\ f.resp.message = "Activated"

KeyUsedRejection == Reject(403, "Key already used")

\* C1: of the requests of verified identities that present the same unused key
\* concurrently, none with a live session, exactly one activates it and every other
\* one is rejected with 403 "Key already used".
C1_ExactlyOneActivation ==
  \A k \in Keys :
    /\ activations[k] <= 1
    /\ activations[k] = 1 =>
         \A r \in Requests :
           (/\ req[r].pc = "done"
            /\ req[r].email \in Emails
            /\ req[r].provided_key = k
            /\ ~req[r].key_was_used
            /\ ~OnSessionPath(req[r])
            /\ ~Activated(req[r])) => req[r].resp = KeyUsedRejection

\* C2: a license row's status changes at most once, from unused to used, no row
\* appears or disappears, and a key rejected as used or as invalid is in a state
\* in which a retry is rejected again.
C2_UsedIsTerminal ==
  /\ [][/\ \A x \in licenses :
             \/ x \in licenses'
             \/ x.status = "unused" /\ [x EXCEPT !.status = "used"] \in licenses'
        /\ {x.key_code : x \in licenses'} = {x.key_code : x \in licenses}
        /\ Cardinality(licenses') = Cardinality(licenses)]_vars
  /\ [](\A r \in Requests :
          /\ (req[r].pc = "done" /\ req[r].resp = KeyUsedRejection)
               => IsUsed(SelectLicense(licenses, req[r].provided_key))
          /\ (req[r].pc = "done" /\ req[r].resp = Reject(403, "Invalid license key"))
               => SelectLicense(licenses, req[r].provided_key) = <<>>)

\* C2 witness: a request was rejected because its key is used.
C2_Witness ==
  \E r \in Requests : req[r].pc = "done" /\ req[r].resp = KeyUsedRejection

\* C3: active_sessions holds at most one row per identity.
C3_OneSessionPerIdentity ==
  \A s1, s2 \in sessions : s1.user_email = s2.user_email => s1 = s2

\* C3 witness: a request is about to insert a session row for an identity that has
\* got one since the request looked.
C3_Witness ==
  \E r \in Requests :
    /\ req[r].pc = "insert_session"
    /\ \E s1 \in sessions : s1.user_email = req[r].email

\* The hours a request computes on a session are at most the hours an earlier request
\* computed on the same session row.
HoursNonIncreasing ==
  \A r, q \in Requests :
    (/\ r # q
     /\ req[r].pc = "remaining" /\ req'[r].pc = "respond_active"
     /\ req[q].pc = "respond_active"
     /\ req[q].email = req[r].email /\ req[q].session = req[r].session)
      => req'[r].remaining <= req[q].remaining

\* The steps of the session path consume no license.
NoConsumption ==
  \A r \in Requests :
    (req[r].pc \in {"remaining", "respond_active"} /\ Acts(r))
      => licenses' = licenses /\ activations' = activations

\* C4 as stated: a call that finds its session live is answered authorized:true, its
\* hours_remaining is no more than that of an earlier call on the session, and no
\* license changes status.
C4_AlwaysAuthorized ==
  [][/\ \A r \in Requests :
          (req[r].pc = "respond_active" /\ Acts(r))
            => /\ req'[r].resp.authorized
               /\ req'[r].resp.hours_remaining = req[r].remaining
     /\ HoursNonIncreasing
     /\ NoConsumption]_vars

\* C4: a call that finds its session live is answered authorized:true with the hours
\* it computed, unless it names a file the registry lacks, which is answered 404; its
\* hours are no more than those of an earlier call on the session, and no license
\* changes status.
C4_AuthorizedUnlessFileMissing ==
  [][/\ \A r \in Requests :
          (req[r].pc = "respond_active" /\ Acts(r))
            => LET f == req'[r]
                   missing == /\ Truthy(f.requested_file)
                              /\ SelectFile(registry, f.requested_file) = <<>>
               IN  /\ f.pc = "done"
                   /\ ~missing => /\ f.resp.authorized /\ f.resp.status = 200
                                  /\ f.resp.hours_remaining = req[r].remaining
                   /\ missing => ~f.resp.authorized /\ f.resp.status = 404
     /\ HoursNonIncreasing
     /\ NoConsumption]_vars

\* C4 witness: two calls on one live session, the later one with fewer hours left.
C4_Witness ==
  \E r, q \in Requests :
    /\ req[r].pc = "respond_active" /\ req[q].pc = "respond_active"
    /\ req[q].email = req[r].email /\ req[q].session = req[r].session
    /\ req[r].remaining < req[q].remaining

\* C5: only now < expires_at takes the session path; a session whose expires_at is
\* the clock reading or earlier is deleted and the request goes on to the key checks.
C5_BoundaryIsExpired ==
  [][\A r \in Requests :
       /\ (req[r].pc = "check_expiry" /\ req'[r].pc = "remaining")
            => clock < req[r].session[1]
       /\ (req[r].pc = "check_expiry" /\ Acts(r) /\ clock >= req[r].session[1])
            => req'[r].pc = "delete_expired"
       /\ (req[r].pc = "delete_expired" /\ Acts(r))
            => /\ req'[r].pc = "check_key"
               /\ SelectSession(sessions', req[r].email) = <<>>]_vars

\* C5 witness: a request found expires_at equal to its clock reading and is about
\* to delete the row.
C5_Witness ==
  \E r \in Requests : req[r].pc = "delete_expired" /\ req[r].session[1] = clock

\* Request r's transaction commits.
Commits(r) == req[r].pc = "commit" /\ req'[r].pc = "respond_new"

\* C6: the key's status used and the session row expiring the granted duration after
\* the clock reading become visible in one step, the commit; before the commit, and
\* when the request fails, neither is visible.
C6_ActivationAtomic ==
  /\ [][/\ \A r \in Requests :
             /\ Commits(r)
                  => /\ IsUsed(SelectLicense(licenses', req[r].provided_key))
                     /\ [user_email |-> req[r].email, expires_at |-> req[r].new_expiry]
                          \in sessions'
             /\ (req[r].pc \in {"update_license", "insert_session"} /\ Acts(r))
                  => licenses' = licenses /\ sessions' = sessions
        /\ licenses' # licenses => \E r \in Requests : Commits(r)
        /\ ~(sessions' \subseteq sessions) => \E r \in Requests : Commits(r)]_vars
  /\ [](\A r \in Requests :
          req[r].pc \in {"update_license", "insert_session", "commit"}
            => req[r].new_expiry - req[r].row[2] \in 0..clock)

\* C6 witness: a request has committed its activation: its key is used and its
\* identity has a session row.
C6_Witness ==
  \E r \in Requests :
    /\ req[r].pc = "respond_new"
    /\ IsUsed(SelectLicense(licenses, req[r].provided_key))
    /\ SelectSession(sessions, req[r].email) # <<>>

\* C7: a request that is authorized (by a live session or by an activation) and names
\* a file the registry lacks is answered 404 with authorized:false.
C7_MissingFileIsNotFound ==
  \A r \in Requests :
    (/\ req[r].pc = "done"
     /\ req[r].requested_file # Unread /\ Truthy(req[r].requested_file)
     /\ SelectFile(registry, req[r].requested_file) = <<>>)
      => req[r].resp.status = 404 /\ ~req[r].resp.authorized

\* C8: from the test of line 112 finding the session live to the response, 200 or
\* 404, a request changes no table.
C8_SessionPathReadsOnly ==
  [][\A r \in Requests :
       (/\ \/ req[r].pc = "check_expiry" /\ clock < req[r].session[1]
           \/ req[r].pc \in {"remaining", "respond_active"}
        /\ Acts(r))
         => /\ UNCHANGED stores
            /\ req[r].pc = "respond_active" => req'[r].resp.status \in {200, 404}]_vars

\* C8 witness: a request carrying a key and naming a missing file was answered 404 on
\* the session path.
C8_Witness ==
  \E r \in Requests :
    /\ req[r].pc = "done" /\ req[r].resp.status = 404
    /\ req[r].provided_key \in Keys

\* C9: a request without a credential is rejected with 400 and a request whose
\* verification failed with 403, before any table is read.
C9_BadCredentialRejected ==
  \A r \in Requests :
    req[r].pc # "idle" =>
      /\ ~Truthy(req[r].google_token)
           => req[r].pc = "done" /\ req[r].resp = Reject(400, "Google token required")
      /\ (Truthy(req[r].google_token) /\ req[r].error # None)
           => req[r].pc = "done" /\ req[r].resp = Reject(403, "Google auth failed")

\* C10 as stated: every request that arrives after its key was consumed is rejected
\* with 403 "Key already used".
C10_LaterRequestRejected ==
  \A r \in Requests :
    (req[r].pc = "done" /\ req[r].key_was_used) => req[r].resp = KeyUsedRejection

\* C10: every request that arrives after its key was consumed and is not answered
\* from a live session is rejected with 403 "Key already used", and a session row is
\* added only by the commit of a request whose key was unused when it arrived.
C10_LaterRequestRejectedUnlessSession ==
  /\ [](\A r \in Requests :
          (req[r].pc = "done" /\ req[r].key_was_used /\ ~OnSessionPath(req[r]))
            => req[r].resp = KeyUsedRejection)
  /\ [][~(sessions' \subseteq sessions)
          => \E r \in Requests : Commits(r) /\ ~req[r].key_was_used]_vars

\* C10 witness: a request that arrived after its key was consumed was rejected.
C10_Witness ==
  \E r \in Requests :
    req[r].pc = "done" /\ req[r].key_was_used /\ req[r].resp = KeyUsedRejection

\* C11: a request that has found no session row for its identity, or has deleted the
\* expired one, and carries no key is answered 401 with needs_key:true and an error,
\* changes no table, and needs_key marks the 401 responses and no other.
C11_MissingKeyNeedsKey ==
  /\ [][\A r \in Requests :
          (req[r].pc = "check_key" /\ Acts(r) /\ ~Truthy(req'[r].provided_key))
            => /\ req'[r].pc = "done"
               /\ req'[r].resp.status = 401
               /\ req'[r].resp.needs_key /\ ~req'[r].resp.authorized
               /\ Truthy(req'[r].resp.error)
               /\ UNCHANGED stores
               /\ activations' = activations]_vars
  /\ [](\A r \in Requests :
          req[r].pc = "done" => (req[r].resp.needs_key <=> req[r].resp.status = 401))

\* C11 witness: a verified identity without a session sent no key and was answered 401.
C11_Witness ==
  \E r \in Requests :
    /\ req[r].pc = "done" /\ req[r].email \in Emails
    /\ req[r].provided_key = None /\ req[r].resp.status = 401
    /\ SelectSession(sessions, req[r].email) = <<>>

\* C12: a request without a live session whose key code no license row carries is
\* answered 403 "Invalid license key"; no table changes.
C12_UnknownKeyRejected ==
  [][\A r \in Requests :
       (/\ req[r].pc = "check_key" /\ Acts(r)
        /\ Truthy(req'[r].provided_key)
        /\ req'[r].provided_key \notin {x.key_code : x \in licenses})
         => /\ req'[r].pc = "done"
            /\ req'[r].resp =
                 [NoResp EXCEPT !.status = 403, !.error = "Invalid license key"]
            /\ UNCHANGED stores
            /\ activations' = activations]_vars

\* C12 witness: a verified identity presented a key code the license table lacks and
\* was rejected as invalid.
C12_Witness ==
  \E r \in Requests :
    /\ req[r].pc = "done" /\ req[r].email \in Emails
    /\ req[r].provided_key = BadKey
    /\ req[r].resp.status = 403 /\ req[r].resp.error = "Invalid license key"

\* The delete of the expired row is committed before the license check: the row is
\* gone when the request reaches line 140, and no license has changed.
DeleteCommittedFirst ==
  \A r \in Requests :
    (req[r].pc = "delete_expired" /\ Acts(r))
      => /\ req'[r].pc = "check_key"
         /\ SelectSession(sessions', req[r].email) = <<>>
         /\ licenses' = licenses

\* C13 as stated: a request that found an expired session row deletes it before the
\* license check, and when it ends rejected its identity has no session row.
C13_NoSessionAfterExpiredRequest ==
  [][/\ DeleteCommittedFirst
     /\ \A r \in Requests :
          (req[r].pc = "check_key" /\ req[r].session # <<>> /\ req'[r].pc = "done")
            => SelectSession(sessions', req[r].email) = <<>>]_vars

\* C13: a request that found an expired session row deletes it before the license
\* check and then decides on the key alone, as a request without a session does; a
\* rejection changes no table, and a session row for an identity appears only by the
\* commit of an activation by that identity (this request's or a concurrent one's).
C13_ExpiredRowDeletedFirst ==
  [][/\ DeleteCommittedFirst
     /\ \A r \in Requests :
          (req[r].pc = "check_key" /\ req[r].session # <<>> /\ Acts(r))
            => LET k == req'[r].provided_key
                   rows == {x \in licenses : x.key_code = k}
               IN  /\ UNCHANGED stores
                   /\ ~Truthy(k) => req'[r].pc = "done" /\ req'[r].resp.status = 401
                   /\ (Truthy(k) /\ (rows = {} \/ \E x \in rows : x.status = "used"))
                        => req'[r].pc = "done" /\ req'[r].resp.status = 403
                   /\ (Truthy(k) /\ \E x \in rows : x.status = "unused")
                        => req'[r].pc = "compute_expiry"
     /\ \A e \in Emails :
          (SelectSession(sessions, e) = <<>> /\ SelectSession(sessions', e) # <<>>)
            => \E q \in Requests : Commits(q) /\ req[q].email = e]_vars

\* C13 witness: a request has deleted the expired row it found and stands before the
\* license check; its identity has no session row.
C13_Witness ==
  \E r \in Requests :
    /\ req[r].pc = "check_key" /\ req[r].session # <<>>
    /\ SelectSession(sessions, req[r].email) = <<>>

\* C14: the expiry in the token of a success response is the expires_at of the
\* session: of the row the request read on the session path, of the row it stored
\* (its clock reading of line 151 plus the granted duration) on the activation path.
C14_TokenExpiryIsSessionExpiry ==
  [][\A r \in Requests :
       (Acts(r) /\ req'[r].pc = "done" /\ req'[r].resp.authorized)
         => /\ req[r].pc = "respond_active"
                 => req'[r].resp.session_token[2] = IsoFormat(req[r].session[1])
            /\ req[r].pc = "respond_new"
                 => req'[r].resp.session_token[2]
                      = IsoFormat(req[r].now + req[r].row[2])]_vars

\* C15: every clock reading a request takes after its first one (lines 113, 151 and
\* 51) has the value of the reading before it.
C15_SingleClockReading ==
  [][\A r \in Requests :
       (Acts(r) /\ req[r].now # NoReading)
         => /\ req[r].pc \in {"remaining", "compute_expiry"} => clock = req[r].now
            /\ (req'[r].pc = "done" /\ req'[r].resp.authorized) => clock = req[r].now]_vars

\* A secret other than the configured one.
OtherSecret == "another-secret"

\* The tokens in the success responses.
Issued ==
  {req[r].resp.session_token :
     r \in {x \in Requests : req[x].pc = "done" /\ req[x].resp.authorized}}

C17_LiveSessionKept ==
  [][\A s \in sessions : IsActive(clock, s.expires_at) => s \in sessions']_vars

\* C18: a request whose identity was verified ends in 200, 401, 403 or 404.
C18_EnumeratedOutcomes ==
  \A r \in Requests :
    (/\ req[r].pc = "done"
     /\ Truthy(req[r].google_token) /\ ~Truthy(req[r].error)
     /\ req[r].email \in Emails)
      => req[r].resp.status \in {200, 401, 403, 404}

\* C19: a success response of the session path reports a positive remaining time.
C19_PositiveRemaining ==
  \A r \in Requests :
    (req[r].pc = "done" /\ req[r].resp.status = 200 /\ req[r].resp.message = None)
      => req[r].resp.hours_remaining > 0

\* C20: a request that is past the verification (line 98) has a non-empty identity,
\* and no session row is keyed by an absent identity.
C20_IdentityPresent ==
  /\ \A r \in Requests :
       \/ req[r].pc = "idle"
       \/ req[r].pc = "done" /\ req[r].resp.status \in {400, 403}
                             /\ req[r].provided_key = Unread
       \/ Truthy(req[r].email)
  /\ \A s \in sessions : Truthy(s.user_email)

====
